---- MODULE Spec2Model ----
(***************************************************************************)
(* Model of mts_dumper.py: the Offset Resolver (offsets_from_another_scale),*)
(* the Tuple Encoder (make_mts_tuple) and the Message Batcher               *)
(* (make_mts_messages_per_note_rt).                                         *)
(*                                                                         *)
(* Cents are Python floats in the source.  Here a cents value on the grid   *)
(* is an exact fixed-point integer counting units of 1/CentsRes cent, so   *)
(* 100.0 cents is 100*CentsRes units; on the grid the source's sums and    *)
(* differences are exact.  The Resolver also takes two floats off the grid,*)
(* one too small and one too large for its subtractions to be exact (see   *)
(* FSub).  The rounding of the Encoder, round(), is modelled as Python 3   *)
(* computes it (round half to even).                                       *)
(***************************************************************************)
EXTENDS Integers, Sequences, FiniteSets, TLC

VARIABLES
  pc,               \* position of the modelled run
  \* offsets_from_another_scale, one entry of its for loop
  scale_step,       \* the enumerate() index of the entry
  scale_note,       \* the entry of `scale` as given: [isNone, val]
  cur_step, cur_note, steps_offset, cents_offset,
  iters,            \* number of while-loop iterations run so far
  resolved,         \* the pair appended to `offsets`
  \* make_mts_tuple
  enc_args,         \* <<note_id, step_offset, cents_offset>>
  enc_result,       \* what the call returned or raised
  \* make_mts_messages_per_note_rt
  starting_note, offsets, tuning_range, notes_per_message,
  device_id, tuning_program,
  note_id,          \* the for loop's variable
  table_index,      \* the index into `offsets` computed for note_id
  tuning_tuples, skipped, messages, buffer

rvars == <<scale_step, scale_note, cur_step, cur_note, steps_offset,
           cents_offset, iters, resolved>>
evars == <<enc_args, enc_result>>
bvars == <<starting_note, offsets, tuning_range, notes_per_message, device_id,
           tuning_program, note_id, table_index, tuning_tuples, skipped,
           messages, buffer>>
vars == <<pc, rvars, evars, bvars>>

(***************************************************************************)
(* Bounds of the model                                                     *)
(***************************************************************************)
\* fixed-point units per cent
CentsRes == 8192
\* the Resolver's inputs lie within MaxSemis semitones of the reference
MaxSemis == 26
\* spacing, in units, of the Encoder's input grid
EncStride == 5
\* the chunking loop is followed for at most this many Messages
MaxMessages == 128
\* the Resolver's while loop is followed for at most this many iterations
MaxIters == 64

(***************************************************************************)
(* Module-level constants of the source                                    *)
(***************************************************************************)
notes == <<"C", "C#", "D", "D#", "E", "F", "F#", "G", "G#", "A", "A#", "B">>
Cents(x) == x * CentsRes
eqtemp12_cents == [k \in 0..11 |-> Cents(100 * k)]
midi_note_range == <<0, 127>>
midi_reference_note == [ID |-> 60, note |-> "C", octave |-> 4]
midi_max_cents_offset == Cents(100)
cents_in_octave == Cents(1200)
bytes_header == 8
bytes_per_note == 4

(***************************************************************************)
(* The floats of the Resolver.  A float is huge*1e20 + units/CentsRes +    *)
(* tiny*2^-70 cents with at most one of the three parts non-zero: a grid   *)
(* value, +-1e20 or +-2^-70.                                               *)
(***************************************************************************)
FloatOf(u) == [huge |-> 0, units |-> u, tiny |-> 0]
TinyFloat(sgn) == [huge |-> 0, units |-> 0, tiny |-> sgn]
HugeFloat(sgn) == [huge |-> sgn, units |-> 0, tiny |-> 0]

\* the float x - g, g a grid value of at most 1200 cents, as IEEE-754 double
\* subtraction rounds it: exact between grid values; 1e20 - g is 1e20 (its
\* spacing is 16384 cents); 2^-70 - g is -g for g # 0 (the spacing of the
\* smallest grid value, 2^-13 cent, is 2^-65)
FSub(x, g) ==
  IF x.huge # 0 THEN x
  ELSE IF x.units - g # 0 THEN FloatOf(x.units - g)
  ELSE TinyFloat(x.tiny)

\* 0 <= x
FNonNeg(x) ==
  x.huge > 0 \/ (x.huge = 0 /\ (x.units > 0 \/ (x.units = 0 /\ x.tiny >= 0)))

\* x < g, g a grid value
FLess(x, g) ==
  x.huge < 0 \/ (x.huge = 0 /\ (x.units < g \/ (x.units = g /\ x.tiny < 0)))

NoneNote == [isNone |-> TRUE, val |-> FloatOf(0)]
SomeNote(c) == [isNone |-> FALSE, val |-> c]
NoneOffset == [isNone |-> TRUE, steps |-> 0, cents |-> FloatOf(0)]
SomeOffset(s, d) == [isNone |-> FALSE, steps |-> s, cents |-> d]

Abs(x) == IF x < 0 THEN -x ELSE x

(***************************************************************************)
(* offsets_from_another_scale                                              *)
(***************************************************************************)
\* the while condition: not (0 <= cents_offset < midi_max_cents_offset)
InTargetMutant(d) ==
  FNonNeg(d) /\ (FLess(d, midi_max_cents_offset) \/ d = FloatOf(midi_max_cents_offset))

InTarget(d) == FNonNeg(d) /\ FLess(d, midi_max_cents_offset)

\* int(math.copysign(1, cents_offset)); a difference is never -0.0
CopySign1(d) == IF FNonNeg(d) THEN 1 ELSE -1

\* one iteration of the while loop, on the loop's four variables
ResolverIter(st, base_scale, n) ==
  LET sign == CopySign1(st.cents_offset)
      step1 == st.cur_step + sign
      wrap == ~(0 <= step1 /\ step1 < n)
      step2 == IF wrap THEN step1 - sign * n ELSE step1
      note2 == IF wrap THEN FSub(st.cur_note, sign * cents_in_octave)
               ELSE st.cur_note
  IN [cur_step |-> step2,
      cur_note |-> note2,
      steps_offset |-> st.steps_offset + sign,
      cents_offset |-> FSub(note2, base_scale[step2])]

\* the loop's variables as the for body sets them before the while
ResolverStart(k, c, base_scale) ==
  [cur_step |-> k, cur_note |-> c, steps_offset |-> 0,
   cents_offset |-> FSub(c, base_scale[k])]

RECURSIVE ResolverLoop(_, _, _)
ResolverLoop(st, base_scale, n) ==
  IF InTarget(st.cents_offset) THEN st
  ELSE ResolverLoop(ResolverIter(st, base_scale, n), base_scale, n)

\* scale and base_scale are functions on 0..n-1, base_scale of grid values
offsets_from_another_scale(scale, base_scale) ==
  LET n == Cardinality(DOMAIN base_scale)
  IN [k \in DOMAIN scale |->
        IF scale[k].isNone THEN NoneOffset
        ELSE LET st == ResolverLoop(ResolverStart(k, scale[k].val, base_scale),
                                    base_scale, n)
             IN SomeOffset(st.steps_offset, st.cents_offset)]

(***************************************************************************)
(* make_mts_tuple                                                          *)
(***************************************************************************)
\* Python 3 round() of the rational num/den, den > 0, num >= 0: to the
\* nearest integer, a tie to the even one
PyRound(num, den) ==
  LET q == num \div den
      r == num % den
  IN IF 2 * r > den \/ (2 * r = den /\ q % 2 = 1) THEN q + 1 ELSE q

\* midi_offset = cents_offset * (2**7 / midi_max_cents_offset) is the
\* rational cents_offset * 2^7 / midi_max_cents_offset; msb is its floor
Msb(cents) == (cents * (2^7)) \div midi_max_cents_offset

LsbMutant(cents) ==
  PyRound(((cents * (2^7)) % midi_max_cents_offset) * 127, midi_max_cents_offset)

\* lsb = round((midi_offset - msb) * 2**7)
Lsb(cents) ==
  PyRound(((cents * (2^7)) % midi_max_cents_offset) * (2^7), midi_max_cents_offset)

PostConditionOkMutant(semitone, msb, lsb) == TRUE

\* the reduce() over [semitone, msb, lsb]: each in 0..0x7F
PostConditionOk(semitone, msb, lsb) ==
  /\ 0 <= semitone /\ semitone <= 127
  /\ 0 <= msb /\ msb <= 127
  /\ 0 <= lsb /\ lsb <= 127

Raised(what) == [status |-> what, semitone |-> 0, msb |-> 0, lsb |-> 0]

\* status "ok": the triple returned; any other status: the Exception raised
make_mts_tuple(n, step_offset, cents) ==
  LET semitone == n + step_offset
  IN IF ~(midi_note_range[1] <= semitone /\ semitone <= midi_note_range[2])
       THEN Raised("semitone not in range")
     ELSE IF ~(0 <= cents /\ cents < midi_max_cents_offset)
       THEN Raised("cents offset not in range")
     ELSE IF ~PostConditionOk(semitone, Msb(cents), Lsb(cents))
       THEN Raised("internal error")
     ELSE [status |-> "ok", semitone |-> semitone,
           msb |-> Msb(cents), lsb |-> Lsb(cents)]

(***************************************************************************)
(* Values the variables of the other components keep                       *)
(***************************************************************************)
IdleResolver ==
  /\ scale_step = 0 /\ scale_note = NoneNote /\ cur_step = 0
  /\ cur_note = FloatOf(0) /\ steps_offset = 0 /\ cents_offset = FloatOf(0)
  /\ iters = 0 /\ resolved = NoneOffset
IdleEncoder ==
  /\ enc_args = <<0, 0, 0>> /\ enc_result = Raised("not called")
IdleBatcher ==
  /\ starting_note = "C" /\ offsets = [k \in 0..11 |-> NoneOffset]
  /\ tuning_range = <<0, 0>> /\ notes_per_message = 127
  /\ device_id = 127 /\ tuning_program = 0 /\ note_id = 0
  /\ table_index = [note |-> -1, idx |-> 0]
  /\ tuning_tuples = <<>> /\ skipped = {} /\ messages = <<>> /\ buffer = <<>>

(***************************************************************************)
(* The Resolver, one entry of `scale` per behaviour                        *)
(***************************************************************************)
\* scale entries on the grid: every subtraction of the loop is exact
ResolverDevs == {0, 1, Cents(50), Cents(100) - 1}
ResolverGrid ==
  {FloatOf(Cents(100) * j + d) : j \in (-MaxSemis)..MaxSemis, d \in ResolverDevs}
\* scale entries off the grid: +-2^-70 and +-1e20 cents
ResolverOffGrid == {TinyFloat(-1), TinyFloat(1), HugeFloat(-1), HugeFloat(1)}
\* the scale entries: finite floats, on the grid and off it
ResolverInputs == ResolverGrid \cup ResolverOffGrid

InitResolverOn(inputs) ==
  /\ pc = "r_for"
  /\ scale_step \in 0..11
  /\ scale_note \in {NoneNote} \cup {SomeNote(c) : c \in inputs}
  /\ cur_step = 0 /\ cur_note = FloatOf(0) /\ steps_offset = 0
  /\ cents_offset = FloatOf(0)
  /\ iters = 0 /\ resolved = NoneOffset
  /\ IdleEncoder /\ IdleBatcher

InitResolver == InitResolverOn(ResolverInputs)
InitResolverGrid == InitResolverOn(ResolverGrid)

\* cur_note is None: append (None, None) and continue
ResolverNone ==
  /\ pc = "r_for" /\ scale_note.isNone
  /\ resolved' = NoneOffset
  /\ pc' = "r_done"
  /\ UNCHANGED <<scale_step, scale_note, cur_step, cur_note, steps_offset,
                 cents_offset, iters, evars, bvars>>

\* cents_offset = cur_note - cur_base; steps_offset = 0
ResolverBegin ==
  /\ pc = "r_for" /\ ~scale_note.isNone
  /\ LET st == ResolverStart(scale_step, scale_note.val, eqtemp12_cents)
     IN /\ cur_step' = st.cur_step
        /\ cur_note' = st.cur_note
        /\ steps_offset' = st.steps_offset
        /\ cents_offset' = st.cents_offset
  /\ pc' = "r_while"
  /\ UNCHANGED <<scale_step, scale_note, iters, resolved, evars, bvars>>

\* one iteration of the while loop
ResolverStep ==
  /\ pc = "r_while" /\ ~InTarget(cents_offset) /\ iters < MaxIters
  /\ LET st == ResolverIter([cur_step |-> cur_step, cur_note |-> cur_note,
                             steps_offset |-> steps_offset,
                             cents_offset |-> cents_offset],
                            eqtemp12_cents, 12)
     IN /\ cur_step' = st.cur_step
        /\ cur_note' = st.cur_note
        /\ steps_offset' = st.steps_offset
        /\ cents_offset' = st.cents_offset
  /\ iters' = iters + 1
  /\ UNCHANGED <<pc, scale_step, scale_note, resolved, evars, bvars>>

\* the loop is left: offsets.append((steps_offset, cents_offset))
ResolverAppend ==
  /\ pc = "r_while" /\ InTarget(cents_offset)
  /\ resolved' = SomeOffset(steps_offset, cents_offset)
  /\ pc' = "r_done"
  /\ UNCHANGED <<scale_step, scale_note, cur_step, cur_note, steps_offset,
                 cents_offset, iters, evars, bvars>>

NextResolver == ResolverNone \/ ResolverBegin \/ ResolverStep \/ ResolverAppend

\* the interpreter runs the loop on: no step that can be taken is put off forever
SpecResolver == InitResolver /\ [][NextResolver]_vars /\ WF_vars(NextResolver)

\* the same run, the scale entry drawn from the grid only
SpecResolverGrid ==
  InitResolverGrid /\ [][NextResolver]_vars /\ WF_vars(NextResolver)

(***************************************************************************)
(* The Encoder, one call per behaviour                                     *)
(***************************************************************************)
\* the fine grid of legal cents offsets, for one note
EncoderGrid == {EncStride * j : j \in 0..((midi_max_cents_offset - 1) \div EncStride)}
\* legal and illegal cents offsets tried with every note and step offset
EncoderEdges == {-1, 0, 25, Cents(50), midi_max_cents_offset - 1, midi_max_cents_offset}
EncoderNotes == {0, 1, 60, 126, 127}
EncoderSteps == {-13, -1, 0, 1, 13}

InitEncoder ==
  /\ pc = "e_call"
  /\ \/ enc_args \in {<<60, 0, c>> : c \in EncoderGrid}
     \/ enc_args \in EncoderNotes \X EncoderSteps \X EncoderEdges
  /\ enc_result = Raised("not called")
  /\ IdleResolver /\ IdleBatcher

Encode ==
  /\ pc = "e_call"
  /\ enc_result' = make_mts_tuple(enc_args[1], enc_args[2], enc_args[3])
  /\ pc' = "e_done"
  /\ UNCHANGED <<enc_args, rvars, bvars>>

NextEncoder == Encode

SpecEncoder == InitEncoder /\ [][NextEncoder]_vars /\ WF_vars(NextEncoder)

(***************************************************************************)
(* rotate_notes                                                            *)
(***************************************************************************)
\* list.index(x), 0-based
Index(seq, x) ==
  (CHOOSE k \in 1..Len(seq) : seq[k] = x /\ \A j \in 1..(k - 1) : seq[j] # x) - 1

\* str.upper() on note names: each lower-case letter a..g to its capital,
\* "#" and capitals unchanged
Upper(name) ==
  CASE name = "c" -> "C" [] name = "c#" -> "C#"
    [] name = "d" -> "D" [] name = "d#" -> "D#"
    [] name = "e" -> "E"
    [] name = "f" -> "F" [] name = "f#" -> "F#"
    [] name = "g" -> "G" [] name = "g#" -> "G#"
    [] name = "a" -> "A" [] name = "a#" -> "A#"
    [] name = "b" -> "B"
    [] OTHER -> name

rotate_notesMutant(ns, start) == ns

rotate_notes(ns, start) ==
  LET i == Index(ns, Upper(start))
  IN SubSeq(ns, i + 1, Len(ns)) \o SubSeq(ns, 1, i)

(***************************************************************************)
(* make_mts_messages_per_note_rt                                           *)
(***************************************************************************)
\* notes_per_message = (bytes_per_message - bytes_header)//bytes_per_note
NotesPerMessageFromBytes(bytes) == (bytes - bytes_header) \div bytes_per_note

\* ref_note_id % len(notes)
StartingStep(ns) ==
  (midi_reference_note.ID + Index(ns, midi_reference_note.note)) % Len(ns)

\* (note_id + starting_step) % len(notes)
TableIndex(n, ns) == (n + StartingStep(ns)) % Len(ns)

\* Python's lst[:n] and lst[n:] for any integer n
SliceStop(seq, n) ==
  IF n >= 0 THEN (IF n < Len(seq) THEN n ELSE Len(seq))
  ELSE (IF Len(seq) + n > 0 THEN Len(seq) + n ELSE 0)
PySliceTo(seq, n) == SubSeq(seq, 1, SliceStop(seq, n))
PySliceFrom(seq, n) == SubSeq(seq, SliceStop(seq, n) + 1, Len(seq))

\* the list built for one chunk
MakeMessage(dev, prog, buf) ==
  <<<<240, 127>>, dev, <<8, 2>>, prog, Len(buf), buf, 247>>

\* the notes list the Batcher is called with
RotatedNotes == rotate_notes(notes, starting_note)

\* the scales the Batcher's Offset tables are resolved from: step k lies
\* a (k even) or b (k odd) units from its reference, the steps of mask unset
ScaleOf(a, b, mask) ==
  [k \in 0..11 |->
     IF k \in mask THEN NoneNote
     ELSE SomeNote(FloatOf(eqtemp12_cents[k] + (IF k % 2 = 0 THEN a ELSE b)))]
BatcherScales ==
  {ScaleOf(d[1], d[2], mask) :
     d \in {<<0, 0>>, <<-Cents(50), midi_max_cents_offset - 50>>,
            <<0, midi_max_cents_offset - 1>>,
            <<Cents(1225), -Cents(1250)>>},
     mask \in {{}, {1, 3, 6, 8, 10}}}
BatcherStartingNotes == {"C", "d", "f#", "A", "b"}
BatcherRanges == {<<0, 127>>, <<1, 127>>, <<60, 60>>, <<58, 71>>}
\* --notes-per-message (main refuses values below 2) or --bytes-per-message
BatcherLimits ==
  {2, 5, 127} \cup {NotesPerMessageFromBytes(b) : b \in {4, 8, 12, 20}}
BatcherTargets == {<<127, 0>>, <<0, 127>>}

InitBatcher ==
  /\ pc = "b_for"
  /\ starting_note \in BatcherStartingNotes
  /\ offsets \in {offsets_from_another_scale(sc, eqtemp12_cents) : sc \in BatcherScales}
  /\ tuning_range \in BatcherRanges
  /\ notes_per_message \in BatcherLimits
  /\ \E t \in BatcherTargets : device_id = t[1] /\ tuning_program = t[2]
  /\ note_id = tuning_range[1]
  /\ table_index = [note |-> -1, idx |-> 0]
  /\ tuning_tuples = <<>> /\ skipped = {} /\ messages = <<>> /\ buffer = <<>>
  /\ IdleResolver /\ IdleEncoder

\* one pass of the for loop over range(tuning_range[0], tuning_range[1]+1)
BatchNote ==
  /\ pc = "b_for" /\ note_id <= tuning_range[2]
  /\ LET k == TableIndex(note_id, RotatedNotes)
         e == offsets[k]
         \* a resolved offset lies in [0, 100): its grid part is what the
         \* Encoder's floor and round see
         r == make_mts_tuple(note_id, e.steps, e.cents.units)
     IN /\ table_index' = [note |-> note_id, idx |-> k]
        /\ IF e.isNone
             THEN UNCHANGED <<tuning_tuples, skipped>>
           ELSE IF r.status = "ok"
             THEN /\ tuning_tuples' =
                       Append(tuning_tuples, <<note_id, r.semitone, r.msb, r.lsb>>)
                  /\ UNCHANGED skipped
           ELSE /\ skipped' = skipped \cup {<<note_id, r.status>>}
                /\ UNCHANGED tuning_tuples
  /\ note_id' = note_id + 1
  /\ UNCHANGED <<pc, starting_note, offsets, tuning_range, notes_per_message,
                 device_id, tuning_program, messages, buffer, rvars, evars>>

\* the for loop is over and len(tuning_tuples) > 0x7F: the Exception
BatchTooMany ==
  /\ pc = "b_for" /\ note_id > tuning_range[2]
  /\ Len(tuning_tuples) > 127
  /\ pc' = "b_raise"
  /\ UNCHANGED <<rvars, evars, bvars>>

\* the for loop is over and the count is legal: messages = [], buffer = []
BatchStart ==
  /\ pc = "b_for" /\ note_id > tuning_range[2]
  /\ ~(Len(tuning_tuples) > 127)
  /\ pc' = "b_while"
  /\ UNCHANGED <<rvars, evars, bvars>>

\* one iteration of `while tuning_tuples`
BatchChunk ==
  /\ pc = "b_while" /\ tuning_tuples # <<>> /\ Len(messages) < MaxMessages
  /\ buffer' = PySliceTo(tuning_tuples, notes_per_message)
  /\ tuning_tuples' = PySliceFrom(tuning_tuples, notes_per_message)
  /\ messages' = Append(messages, MakeMessage(device_id, tuning_program, buffer'))
  /\ UNCHANGED <<pc, starting_note, offsets, tuning_range, notes_per_message,
                 device_id, tuning_program, note_id, table_index, skipped,
                 rvars, evars>>

\* tuning_tuples is empty: return messages
BatchReturn ==
  /\ pc = "b_while" /\ tuning_tuples = <<>>
  /\ pc' = "b_done"
  /\ UNCHANGED <<rvars, evars, bvars>>

NextBatcher ==
  BatchNote \/ BatchTooMany \/ BatchStart \/ BatchChunk \/ BatchReturn

SpecBatcher == InitBatcher /\ [][NextBatcher]_vars /\ WF_vars(NextBatcher)

(***************************************************************************)
(* Vocabulary of the properties                                            *)
(***************************************************************************)
\* pitch class of a note name: C = 0 ... B = 11
PitchClass(name) == CHOOSE k \in 0..11 : notes[k + 1] = Upper(name)

\* the order of the real numbers the floats stand for
RealLess(x, y) ==
  \/ x.huge < y.huge
  \/ x.huge = y.huge /\ x.units < y.units
  \/ x.huge = y.huge /\ x.units = y.units /\ x.tiny < y.tiny

\* the real number x + g, g a grid value: no rounding
RealPlus(x, g) == [x EXCEPT !.units = @ + g]

\* y lies strictly nearer to [0, 100) than x, which lies outside it: on the
\* way from x to the interval and not past it
Nearer(y, x) ==
  IF RealLess(x, FloatOf(0))
    THEN RealLess(x, y) /\ RealLess(y, FloatOf(Cents(100)))
    ELSE RealLess(y, x) /\ ~RealLess(y, FloatOf(0))

\* the tuples of messages lo..hi, in order
RECURSIVE ConcatRange(_, _, _)
ConcatRange(msgs, lo, hi) ==
  IF lo > hi THEN <<>>
  ELSE IF lo = hi THEN msgs[lo][6]
  ELSE LET mid == (lo + hi) \div 2
       IN ConcatRange(msgs, lo, mid) \o ConcatRange(msgs, mid + 1, hi)
ConcatTuples(msgs) == ConcatRange(msgs, 1, Len(msgs))

\* the fields of tuples lo..hi, in order
RECURSIVE FlattenRange(_, _, _)
FlattenRange(tuples, lo, hi) ==
  IF lo > hi THEN <<>>
  ELSE IF lo = hi THEN tuples[lo]
  ELSE LET mid == (lo + hi) \div 2
       IN FlattenRange(tuples, lo, mid) \o FlattenRange(tuples, mid + 1, hi)
Flatten(tuples) == FlattenRange(tuples, 1, Len(tuples))

\* the bytes of one message in wire order
MessageBytes(m) == m[1] \o <<m[2]>> \o m[3] \o <<m[4], m[5]>> \o Flatten(m[6]) \o <<m[7]>>

\* the tuples built for this run, chunked already or not
AllTuples == ConcatTuples(messages) \o tuning_tuples

\* the notes of the range whose table entry is set and whose encoding hits no
\* range error
RetunableNotes ==
  {n \in tuning_range[1]..tuning_range[2] :
     LET e == offsets[(n - PitchClass(starting_note)) % 12]
     IN /\ ~e.isNone
        /\ 0 <= n + e.steps /\ n + e.steps <= 127
        /\ 0 <= e.cents.units /\ e.cents.units < Cents(100)}

EqualTemperamentTable == [k \in 0..11 |-> SomeOffset(0, FloatOf(0))]

C7_ResolverTerminates ==
  /\ [][iters' # iters =>
          /\ (RealLess(cents_offset, FloatOf(0)) =>
                cents_offset' = RealPlus(cents_offset, Cents(100)))
          /\ (~RealLess(cents_offset, FloatOf(Cents(100))) =>
                cents_offset' = RealPlus(cents_offset, -Cents(100)))
          /\ Nearer(cents_offset', cents_offset)]_vars
  /\ []((pc = "r_done" /\ ~scale_note.isNone) => iters = Abs(resolved.steps))
  /\ <>(pc = "r_done")

(***************************************************************************)
(* Tuple Encoder                                                           *)
(***************************************************************************)
EncoderPrecondition ==
  /\ 0 <= enc_args[1] + enc_args[2] /\ enc_args[1] + enc_args[2] <= 127
  /\ 0 <= enc_args[3] /\ enc_args[3] < Cents(100)

\* C3: whenever the preconditions hold the encoder returns a triple with
\* semitone, msb and lsb in 0..127; the internal-consistency failure is never
\* raised.
C3_InternalErrorUnreachable ==
  (pc = "e_done" /\ EncoderPrecondition) =>
    /\ enc_result.status = "ok"
    /\ enc_result.semitone \in 0..127
    /\ enc_result.msb \in 0..127
    /\ enc_result.lsb \in 0..127

\* C8: a returned triple has semitone = noteId + stepOffset and
\* |msb*100/128 + lsb*100/16384 - centsOffset| < 100/16384 cents.  With the
\* cents in units the inequality, times 128*CentsRes, reads
\* |lsb*M - 128*(cents*128 - msb*M)| < M, M the units of 100 cents.
C8_RoundTripBound ==
  (pc = "e_done" /\ enc_result.status = "ok") =>
    LET M == Cents(100)
        err == enc_result.lsb * M - 128 * (enc_args[3] * 128 - enc_result.msb * M)
    IN /\ EncoderPrecondition
       /\ enc_result.semitone = enc_args[1] + enc_args[2]
       /\ Abs(err) < M

\* an offset half an LSB above a representable value, rounded up
C8_Witness ==
  /\ pc = "e_done" /\ enc_result.status = "ok"
  /\ 2 * (enc_result.lsb * Cents(100)
          - 128 * (enc_args[3] * 128 - enc_result.msb * Cents(100))) = Cents(100)

(***************************************************************************)
(* Message Batcher                                                         *)
(***************************************************************************)
\* C2: no returned Message has count 0 or count above the limit, all but the
\* last have exactly `limit` tuples, and the tuples of all Messages in order
\* are, ascending and without duplicates, exactly the notes of the range
\* whose entry is set and whose encoding hit no range error.
C2_BatcherPartition ==
  pc = "b_done" =>
    LET all == ConcatTuples(messages)
    IN /\ \A k \in 1..Len(messages) :
            /\ messages[k][5] = Len(messages[k][6])
            /\ 1 <= messages[k][5] /\ messages[k][5] <= notes_per_message
            /\ (k < Len(messages) => messages[k][5] = notes_per_message)
       /\ \A k \in 1..(Len(all) - 1) : all[k][1] < all[k + 1][1]
       /\ {all[k][1] : k \in 1..Len(all)} = RetunableNotes

\* C4: an internal-consistency error raised while a note is encoded is fatal:
\* the run has stopped by an error and holds no Message.
C4_InternalErrorFatal ==
  (\E x \in skipped : x[2] = "internal error") =>
    (pc = "b_raise" /\ messages = <<>>)

\* C5: a run of more than 127 retunable notes with notesPerMessage = 127 ends
\* with exactly 2 Messages, of 127 tuples and of the remainder.
C5_LargeRunSplits ==
  (pc \in {"b_raise", "b_done"} /\ notes_per_message = 127 /\ Len(AllTuples) > 127) =>
    /\ pc = "b_done"
    /\ Len(messages) = 2
    /\ messages[1][5] = 127
    /\ messages[2][5] = Len(AllTuples) - 127

\* C6: every Message starts F0 7F, ends F7, and every value in between is in
\* 0..127; a run with more than 127 tuples fails before any Message is built.
C6_DataBytesLegal ==
  /\ \A k \in 1..Len(messages) :
       LET b == MessageBytes(messages[k])
       IN /\ Len(b) = bytes_header + bytes_per_note * messages[k][5]
          /\ b[1] = 240 /\ b[2] = 127 /\ b[Len(b)] = 247
          /\ \A j \in 3..(Len(b) - 1) : 0 <= b[j] /\ b[j] <= 127
  /\ (pc # "b_for" /\ Len(AllTuples) > 127) => (pc = "b_raise" /\ messages = <<>>)

\* a returned full Message of 127 tuples, one of them with msb = lsb = 127
C6_Witness ==
  /\ pc = "b_done"
  /\ \E k \in 1..Len(messages) :
       /\ messages[k][5] = 127
       /\ \E j \in 1..127 : messages[k][6][j][3] = 127 /\ messages[k][6][j][4] = 127

\* C9: with a starting note of pitch class p the Batcher looks note noteId up
\* at table index (noteId - p) mod 12, and encodes it with that entry; with
\* starting note C, the equal-temperament table, range [60,60], device 127 and
\* program 0 it returns the bytes F0 7F 7F 08 02 00 01 3C 3C 00 00 F7.
C9_CyclicAlignment ==
  LET p == PitchClass(starting_note)
      all == AllTuples
  IN /\ table_index.note >= 0 =>
          table_index.idx = (table_index.note - p) % 12
     /\ \A k \in 1..Len(all) :
          LET t == all[k]
              e == offsets[(t[1] - p) % 12]
          IN ~e.isNone /\ t[2] = t[1] + e.steps /\ t[3] = Msb(e.cents.units)
     /\ (/\ pc = "b_done" /\ p = 0 /\ offsets = EqualTemperamentTable
         /\ tuning_range = <<60, 60>> /\ device_id = 127 /\ tuning_program = 0
         /\ notes_per_message >= 1)
        => /\ Len(messages) = 1
           /\ MessageBytes(messages[1]) =
                <<240, 127, 127, 8, 2, 0, 1, 60, 60, 0, 0, 247>>

\* starting note A: note 69 (A4) has just been looked up at entry 0
C9_Witness ==
  /\ starting_note = "A" /\ table_index = [note |-> 69, idx |-> 0]
  /\ tuning_tuples # <<>> /\ tuning_tuples[Len(tuning_tuples)][1] = 69

\* C10: every iteration of the chunking loop strictly shrinks the remaining
\* tuple list, whatever the per-message limit.
C10_ChunkingShrinks ==
  [][(pc = "b_while" /\ messages' # messages) =>
       Len(tuning_tuples') < Len(tuning_tuples)]_vars

====
